---- MODULE Spec2Model ----
(***************************************************************************)
(* A model of the char_tilemap crate: Vector2, Tile and Tilemap with its   *)
(* operations new, size, add_tile, remove_tile, build and build_row.       *)
(*                                                                         *)
(* A char is modelled as a one-character string, a String as a sequence of *)
(* chars.  A Vector2 is the record [y, x] (y is the first field, as in the *)
(* source), a Tile the record [position, value], a Tilemap the record      *)
(* [empty_tile, size, tiles] with tiles the content of the SortedSet, a    *)
(* sequence in iteration order.  Sequence indices are 1-based here and     *)
(* 0-based in the source.                                                  *)
(***************************************************************************)
EXTENDS Integers, Sequences, FiniteSets, TLC

VARIABLES tilemap, ret

vars == <<tilemap, ret>>

(***************************************************************************)
(* Bounds of the model.  Coordinates handed to the operations range over   *)
(* 0..MaxCoord, far below usize::MAX, so position + 1 does not overflow    *)
(* here.  At most MaxTiles tiles are stored at a time.                     *)
(***************************************************************************)
MaxCoord == 2

MaxTiles == 2

\* the largest number of tiles added to a fresh grid in every order
MaxAdded == 3

\* The largest usize of the model: usize::MAX scaled down, so that sums and
\* differences leave the range 0..UsizeMax within the bounds.
UsizeMax == 3

Usize == 0..UsizeMax

Coords == 0..MaxCoord

\* display characters used as tile values; "-" doubles as an empty-fill char
Values == {"O", "-"}

\* characters the grid may be constructed with as empty_tile
EmptyChars == {"-", "."}

NL == "\n"

Max(a, b) == IF a >= b THEN a ELSE b

----------------------------------------------------------------------------
(* common_types.rs *)

Vector2_new(x, y) == [y |-> y, x |-> x]

ZERO == Vector2_new(0, 0)

Positions == {Vector2_new(x, y) : x \in Coords, y \in Coords}

\* every Vector2 of the model's usize range
Vectors == {Vector2_new(x, y) : x \in Usize, y \in Usize}

\* a + b on usize.  Out of range, the build decides: with overflow checks (the
\* debug profile) the operation panics, without them (the release profile) it
\* wraps modulo usize::MAX + 1.
usize_add(a, b, overflow_checks) ==
    IF a + b <= UsizeMax THEN [panic |-> FALSE, value |-> a + b]
    ELSE IF overflow_checks THEN [panic |-> TRUE, value |-> 0]
    ELSE [panic |-> FALSE, value |-> (a + b) % (UsizeMax + 1)]

\* a - b on usize, as usize_add
usize_sub(a, b, overflow_checks) ==
    IF a - b >= 0 THEN [panic |-> FALSE, value |-> a - b]
    ELSE IF overflow_checks THEN [panic |-> TRUE, value |-> 0]
    ELSE [panic |-> FALSE, value |-> (a - b + UsizeMax + 1) % (UsizeMax + 1)]

\* impl Add for Vector2: how the call ends and the Vector2 returned
Vector2_add(self, rhs, overflow_checks) ==
    LET x == usize_add(self.x, rhs.x, overflow_checks)
        y == usize_add(self.y, rhs.y, overflow_checks)
    IN  IF x.panic \/ y.panic
        THEN [outcome |-> "panic", value |-> ZERO]
        ELSE [outcome |-> "return", value |-> [y |-> y.value, x |-> x.value]]

\* the components crossed: x - rhs.y and y - rhs.x
Vector2_sub_crossed(self, rhs, overflow_checks) ==
    LET x == usize_sub(self.x, rhs.y, overflow_checks)
        y == usize_sub(self.y, rhs.x, overflow_checks)
    IN  IF x.panic \/ y.panic
        THEN [outcome |-> "panic", value |-> ZERO]
        ELSE [outcome |-> "return", value |-> [y |-> y.value, x |-> x.value]]

\* impl Sub for Vector2
Vector2_sub(self, rhs, overflow_checks) ==
    LET x == usize_sub(self.x, rhs.x, overflow_checks)
        y == usize_sub(self.y, rhs.y, overflow_checks)
    IN  IF x.panic \/ y.panic
        THEN [outcome |-> "panic", value |-> ZERO]
        ELSE [outcome |-> "return", value |-> [y |-> y.value, x |-> x.value]]

\* x declared before y: the column compared first
Vector2_cmp_x_first(a, b) ==
    IF a.x < b.x THEN "Less"
    ELSE IF a.x > b.x THEN "Greater"
    ELSE IF a.y < b.y THEN "Less"
    ELSE IF a.y > b.y THEN "Greater"
    ELSE "Equal"

\* #[derive(Ord)]: lexicographic over the fields in declaration order, y then x
Vector2_cmp(a, b) ==
    IF a.y < b.y THEN "Less"
    ELSE IF a.y > b.y THEN "Greater"
    ELSE IF a.x < b.x THEN "Less"
    ELSE IF a.x > b.x THEN "Greater"
    ELSE "Equal"

\* #[derive(PartialEq)]: all fields equal
Vector2_eq(a, b) == a.y = b.y /\ a.x = b.x

----------------------------------------------------------------------------
(* tile.rs *)

Tile_new(position, value) == [position |-> position, value |-> value]

\* #[derive(Ord)] on Tile: position, then value
Tile_cmp_derived(self, other) ==
    IF Vector2_cmp(self.position, other.position) # "Equal"
    THEN Vector2_cmp(self.position, other.position)
    ELSE IF self.value = other.value THEN "Equal"
    ELSE IF self.value = "-" THEN "Less" ELSE "Greater"

Tile_cmp(self, other) == Vector2_cmp(self.position, other.position)

\* partial_cmp: Some(self.cmp(other))
Tile_partial_cmp(self, other) == [some |-> TRUE, value |-> Tile_cmp(self, other)]

\* #[derive(PartialEq)] on Tile: position and value both compared
Tile_eq_derived(self, other) ==
    Vector2_eq(self.position, other.position) /\ self.value = other.value

Tile_eq(self, other) == Vector2_eq(self.position, other.position)

----------------------------------------------------------------------------
(* The SortedSet<Tile> calls made by tilemap.rs *)

\* slice contains: some element == the given one (PartialEq for Tile)
contains(tiles, tile) == \E i \in 1..Len(tiles) : Tile_eq(tiles[i], tile)

\* binary search by Ord for Tile on the sorted content: the index of an
\* element comparing Equal (found), or the index at which to insert
binary_search(tiles, tile) ==
    LET hits == {i \in 1..Len(tiles) : Tile_cmp(tiles[i], tile) = "Equal"}
        less == {i \in 1..Len(tiles) : Tile_cmp(tiles[i], tile) = "Less"}
    IN  IF hits # {}
        THEN [found |-> TRUE, index |-> CHOOSE i \in hits : TRUE]
        ELSE [found |-> FALSE, index |-> Cardinality(less) + 1]

\* Vec::push of the same element, the bug of a plain (unsorted) container
push_back(tiles, tile) == Append(tiles, tile)

\* SortedSet::push: an element comparing Equal is replaced, otherwise the
\* new element is inserted at its sorted position
push(tiles, tile) ==
    LET r == binary_search(tiles, tile)
    IN  IF r.found
        THEN [tiles EXCEPT ![r.index] = tile]
        ELSE SubSeq(tiles, 1, r.index - 1) \o <<tile>>
                 \o SubSeq(tiles, r.index, Len(tiles))

\* a closure that compares the column only
iter_position_by_x(tiles, position) ==
    LET hits == {i \in 1..Len(tiles) : tiles[i].position.x = position.x}
    IN  IF hits = {} THEN 0 ELSE CHOOSE i \in hits : \A j \in hits : i <= j

\* iter().position(|tile| tile.position == position): the first index whose
\* tile lies at position, 0 for None
iter_position(tiles, position) ==
    LET hits == {i \in 1..Len(tiles) : Vector2_eq(tiles[i].position, position)}
    IN  IF hits = {} THEN 0 ELSE CHOOSE i \in hits : \A j \in hits : i <= j

\* removes the last element whatever the index
remove_last(tiles, index) == SubSeq(tiles, 1, Len(tiles) - 1)

\* remove_index: the element at index leaves, the others keep their order
remove_index(tiles, index) ==
    SubSeq(tiles, 1, index - 1) \o SubSeq(tiles, index + 1, Len(tiles))

----------------------------------------------------------------------------
(* tilemap.rs *)

\* a fresh Tilemap of size (1, 1)
new_unit(empty_tile) ==
    [empty_tile |-> empty_tile, size |-> Vector2_new(1, 1), tiles |-> <<>>]

new(empty_tile) == [empty_tile |-> empty_tile, size |-> ZERO, tiles |-> <<>>]

size(self) == self.size

\* a Tile whose derived traits compare position and value, in a container
\* that keeps elements comparing different
add_tile_by_value(self, position, value) ==
    LET new_tile == Tile_new(position, value)
        less == {i \in 1..Len(self.tiles) :
                   Vector2_cmp(self.tiles[i].position, position) = "Less"}
        at == Cardinality(less) + 1
    IN  IF ~(\E i \in 1..Len(self.tiles) : self.tiles[i] = new_tile)
        THEN [self |-> [self EXCEPT
                  !.tiles = SubSeq(self.tiles, 1, at - 1) \o <<new_tile>>
                                \o SubSeq(self.tiles, at, Len(self.tiles)),
                  !.size = [y |-> Max(self.size.y, position.y + 1),
                            x |-> Max(self.size.x, position.x + 1)]],
              ok |-> TRUE]
        ELSE [self |-> self, ok |-> FALSE]

\* size grows to the position itself, not one past it
add_tile_size_off(self, position, value) ==
    LET new_tile == Tile_new(position, value)
    IN  IF ~contains(self.tiles, new_tile)
        THEN [self |-> [self EXCEPT
                  !.tiles = push(self.tiles, new_tile),
                  !.size = [y |-> Max(self.size.y, position.y),
                            x |-> Max(self.size.x, position.x)]],
              ok |-> TRUE]
        ELSE [self |-> self, ok |-> FALSE]

\* the new tile's value is also written to empty_tile
add_tile_sets_empty(self, position, value) ==
    LET new_tile == Tile_new(position, value)
    IN  IF ~contains(self.tiles, new_tile)
        THEN [self |-> [self EXCEPT
                  !.tiles = push(self.tiles, new_tile),
                  !.empty_tile = value,
                  !.size = [y |-> Max(self.size.y, position.y + 1),
                            x |-> Max(self.size.x, position.x + 1)]],
              ok |-> TRUE]
        ELSE [self |-> self, ok |-> FALSE]

\* add_tile: self after the call and whether it returned Ok
add_tile(self, position, value) ==
    LET new_tile == Tile_new(position, value)
    IN  IF ~contains(self.tiles, new_tile)
        THEN [self |-> [self EXCEPT
                  !.tiles = push(self.tiles, new_tile),
                  !.size = [y |-> Max(self.size.y, position.y + 1),
                            x |-> Max(self.size.x, position.x + 1)]],
              ok |-> TRUE]
        ELSE [self |-> self, ok |-> FALSE]

\* the size recomputed from the tiles left
remove_tile_shrink(self, position) ==
    LET index == iter_position(self.tiles, position)
        left == remove_index(self.tiles, index)
        far(s) == IF s = {} THEN 0 ELSE 1 + CHOOSE m \in s : \A n \in s : n <= m
    IN  IF index # 0
        THEN [self |-> [self EXCEPT
                  !.tiles = left,
                  !.size = [y |-> far({left[i].position.y : i \in 1..Len(left)}),
                            x |-> far({left[i].position.x : i \in 1..Len(left)})]],
              ok |-> TRUE]
        ELSE [self |-> self, ok |-> FALSE]

\* remove_tile: self after the call and whether it returned Ok
remove_tile(self, position) ==
    LET index == iter_position(self.tiles, position)
    IN  IF index # 0
        THEN [self |-> [self EXCEPT !.tiles = remove_index(self.tiles, index)],
              ok |-> TRUE]
        ELSE [self |-> self, ok |-> FALSE]

\* reports the end of the row one cell early
build_row_end_off(self, start_position, end_position, result) ==
    LET n == IF start_position < end_position
             THEN end_position - start_position ELSE 0
        stop == IF start_position < end_position THEN end_position
                ELSE start_position
    IN  [result |-> result \o [i \in 1..n |-> self.empty_tile],
         state |-> IF stop + 1 = self.size.x THEN "NewLine" ELSE "SameLine",
         position |-> stop]

\* fills one cell less than asked
build_row_short(self, start_position, end_position, result) ==
    LET n == IF start_position + 1 < end_position
             THEN end_position - start_position - 1 ELSE 0
        stop == IF start_position < end_position THEN end_position
                ELSE start_position
    IN  [result |-> result \o [i \in 1..n |-> self.empty_tile],
         state |-> IF stop = self.size.x THEN "NewLine" ELSE "SameLine",
         position |-> stop]

\* build_row: result with empty_tile pushed for every cell of
\* start_position..end_position-1, and the DrawLineState returned
build_row(self, start_position, end_position, result) ==
    LET n == IF start_position < end_position
             THEN end_position - start_position ELSE 0
        stop == IF start_position < end_position THEN end_position
                ELSE start_position
    IN  [result |-> result \o [i \in 1..n |-> self.empty_tile],
         state |-> IF stop = self.size.x THEN "NewLine" ELSE "SameLine",
         position |-> stop]

\* the loop `while y < tile.position.y` of build, from the cursor st.  A
\* SameLine that leaves x and result as they were repeats for ever: "hang".
RECURSIVE skip_rows(_, _, _)
skip_rows(self, tile, st) ==
    IF ~(st.y < tile.position.y) THEN st
    ELSE LET r == build_row(self, st.x, self.size.x, st.result)
         IN  IF r.state = "NewLine"
             THEN skip_rows(self, tile,
                      [st EXCEPT !.x = 0, !.y = st.y + 1,
                                 !.result = Append(r.result, NL)])
             ELSE IF r.position = st.x /\ r.result = st.result
             THEN [st EXCEPT !.outcome = "hang"]
             ELSE skip_rows(self, tile,
                      [st EXCEPT !.x = r.position, !.result = r.result])

\* the loop over self.tiles of build, from the tile at index i
RECURSIVE draw_tiles(_, _, _)
draw_tiles(self, i, st) ==
    IF i > Len(self.tiles) \/ st.outcome # "return" THEN st
    ELSE LET tile == self.tiles[i]
             a == skip_rows(self, tile, st)
             r == build_row(self, a.x, tile.position.x, a.result)
         IN  IF a.outcome # "return" THEN a
             ELSE IF r.state = "NewLine"
             THEN [a EXCEPT !.outcome = "panic", !.result = r.result]
             ELSE draw_tiles(self, i + 1,
                      [a EXCEPT !.result = Append(r.result, tile.value),
                                !.x = r.position + 1])

\* build: the String returned, or how the call ends otherwise
build(self) ==
    LET st == draw_tiles(self, 1,
                  [result |-> <<>>, x |-> 0, y |-> 0, outcome |-> "return"])
    IN  IF st.outcome = "return" /\ st.x < self.size.x
        THEN [outcome |-> "return",
              result |-> build_row(self, st.x, self.size.x, st.result).result]
        ELSE [outcome |-> st.outcome, result |-> st.result]

----------------------------------------------------------------------------
(* The caller: one call of a public operation per step.  ret is what the   *)
(* last call returned: op names the operation, outcome how it ended, ok is *)
(* Ok against Err, text the String of build, size the Vector2 of size().   *)

Returned(op, ok, text, sz) ==
    [op |-> op, outcome |-> "return", ok |-> ok, text |-> text, size |-> sz]

Init ==
    \E c \in EmptyChars :
        /\ tilemap = new(c)
        /\ ret = Returned("new", TRUE, <<>>, ZERO)

AddTileAt(p, v) ==
    /\ Len(tilemap.tiles) < MaxTiles \/ contains(tilemap.tiles, Tile_new(p, v))
    /\ LET r == add_tile(tilemap, p, v)
       IN  /\ tilemap' = r.self
           /\ ret' = Returned("add_tile", r.ok, <<>>, ZERO)

AddTile == \E p \in Positions, v \in Values : AddTileAt(p, v)

RemoveTileAt(p) ==
    LET r == remove_tile(tilemap, p)
    IN  /\ tilemap' = r.self
        /\ ret' = Returned("remove_tile", r.ok, <<>>, ZERO)

RemoveTile == \E p \in Positions : RemoveTileAt(p)

\* a build that consumes the tiles it draws
Build_draining ==
    LET r == build(tilemap)
    IN  /\ ret' = [op |-> "build", outcome |-> r.outcome, ok |-> TRUE,
                   text |-> r.result, size |-> ZERO]
        /\ tilemap' = [tilemap EXCEPT !.tiles = <<>>]

Build ==
    LET r == build(tilemap)
    IN  /\ ret' = [op |-> "build", outcome |-> r.outcome, ok |-> TRUE,
                   text |-> r.result, size |-> ZERO]
        /\ UNCHANGED tilemap

Size ==
    /\ ret' = Returned("size", TRUE, <<>>, size(tilemap))
    /\ UNCHANGED tilemap

Next == AddTile \/ RemoveTile \/ Build \/ Size

Spec == Init /\ [][Next]_vars

\* empty_tile is a pub field: a caller holding the Tilemap mutably assigns it
SetEmptyTile ==
    \E c \in EmptyChars :
        /\ tilemap' = [tilemap EXCEPT !.empty_tile = c]
        /\ ret' = Returned("empty_tile =", TRUE, <<>>, ZERO)

NextPub == Next \/ SetEmptyTile

\* the methods together with the access to the public member
SpecPub == Init /\ [][NextPub]_vars

----------------------------------------------------------------------------
(* Vector2 and Tile on their own: one call, made after construction, on   *)
(* arguments drawn from the whole usize range of the model, under either   *)
(* build profile.  The calls keep no state, so one call per behaviour      *)
(* covers them.  ret is the call with its arguments and what it returned.  *)

Tiles == {Tile_new(p, v) : p \in Vectors, v \in Values}

VecAdd ==
    /\ ret.op = "new"
    /\ \E a \in Vectors, b \in Vectors, oc \in BOOLEAN :
        LET r == Vector2_add(a, b, oc)
        IN  /\ ret' = [op |-> "add", a |-> a, b |-> b, overflow_checks |-> oc,
                       outcome |-> r.outcome, value |-> r.value]
            /\ UNCHANGED tilemap

VecSub ==
    /\ ret.op = "new"
    /\ \E a \in Vectors, b \in Vectors, oc \in BOOLEAN :
        LET r == Vector2_sub(a, b, oc)
        IN  /\ ret' = [op |-> "sub", a |-> a, b |-> b, overflow_checks |-> oc,
                       outcome |-> r.outcome, value |-> r.value]
            /\ UNCHANGED tilemap

\* (a - b) + b
VecSubAdd ==
    /\ ret.op = "new"
    /\ \E a \in Vectors, b \in Vectors, oc \in BOOLEAN :
        LET d == Vector2_sub(a, b, oc)
            r == IF d.outcome = "return" THEN Vector2_add(d.value, b, oc) ELSE d
        IN  /\ ret' = [op |-> "sub_add", a |-> a, b |-> b,
                       overflow_checks |-> oc,
                       outcome |-> r.outcome, value |-> r.value]
            /\ UNCHANGED tilemap

VecCmp ==
    /\ ret.op = "new"
    /\ \E a \in Vectors, b \in Vectors, c \in Vectors :
        /\ ret' = [op |-> "cmp", a |-> a, b |-> b, c |-> c,
                   aa |-> Vector2_cmp(a, a), ab |-> Vector2_cmp(a, b),
                   ba |-> Vector2_cmp(b, a), bc |-> Vector2_cmp(b, c),
                   ac |-> Vector2_cmp(a, c), eq |-> Vector2_eq(a, b)]
        /\ UNCHANGED tilemap

TileCmp ==
    /\ ret.op = "new"
    /\ \E s \in Tiles, t \in Tiles :
        /\ ret' = [op |-> "tile_cmp", a |-> s, b |-> t,
                   eq |-> Tile_eq(s, t), cmp |-> Tile_cmp(s, t),
                   partial_cmp |-> Tile_partial_cmp(s, t)]
        /\ UNCHANGED tilemap

NextVec == VecAdd \/ VecSub \/ VecSubAdd \/ VecCmp \/ TileCmp

SpecVec == Init /\ [][NextVec]_vars

----------------------------------------------------------------------------
(* add_tile and remove_tile with positions over the whole usize range.  One *)
(* behaviour is one build of the crate: ret.overflow_checks is chosen at    *)
(* the start and kept.  A panic of add_tile unwinds out of the call and     *)
(* leaves to the owner of the Tilemap what the call had written so far.     *)

\* add_tile, statement by statement: the push, then size.x, then size.y, each
\* position + 1 on usize
add_tile_usize(self, position, value, overflow_checks) ==
    LET new_tile == Tile_new(position, value)
        pushed == [self EXCEPT !.tiles = push(self.tiles, new_tile)]
        x1 == usize_add(position.x, 1, overflow_checks)
        with_x == [pushed EXCEPT !.size.x = Max(self.size.x, x1.value)]
        y1 == usize_add(position.y, 1, overflow_checks)
        with_y == [with_x EXCEPT !.size.y = Max(self.size.y, y1.value)]
    IN  IF contains(self.tiles, new_tile)
        THEN [self |-> self, outcome |-> "return", ok |-> FALSE]
        ELSE IF x1.panic
        THEN [self |-> pushed, outcome |-> "panic", ok |-> FALSE]
        ELSE IF y1.panic
        THEN [self |-> with_x, outcome |-> "panic", ok |-> FALSE]
        ELSE [self |-> with_y, outcome |-> "return", ok |-> TRUE]

UsizeInit ==
    \E c \in EmptyChars, overflow_checks \in BOOLEAN :
        /\ tilemap = new(c)
        /\ ret = [op |-> "new", outcome |-> "return", ok |-> TRUE,
                  position |-> ZERO, overflow_checks |-> overflow_checks]

UsizeAddTile ==
    \E p \in Vectors, v \in Values :
        /\ Len(tilemap.tiles) < MaxTiles \/ contains(tilemap.tiles, Tile_new(p, v))
        /\ LET r == add_tile_usize(tilemap, p, v, ret.overflow_checks)
           IN  /\ tilemap' = r.self
               /\ ret' = [op |-> "add_tile", outcome |-> r.outcome, ok |-> r.ok,
                          position |-> p,
                          overflow_checks |-> ret.overflow_checks]

UsizeRemoveTile ==
    \E p \in Vectors :
        LET r == remove_tile(tilemap, p)
        IN  /\ tilemap' = r.self
            /\ ret' = [op |-> "remove_tile", outcome |-> "return", ok |-> r.ok,
                       position |-> p,
                       overflow_checks |-> ret.overflow_checks]

NextUsize == UsizeAddTile \/ UsizeRemoveTile

SpecUsize == UsizeInit /\ [][NextUsize]_vars

----------------------------------------------------------------------------
(* A fresh grid that is only added to: every order of adding a set of       *)
(* tiles is a behaviour, build called in between.                           *)

AddOnlyAddTile ==
    \E p \in Positions, v \in Values :
        /\ Len(tilemap.tiles) < MaxAdded
        /\ LET r == add_tile(tilemap, p, v)
           IN  /\ tilemap' = r.self
               /\ ret' = Returned("add_tile", r.ok, <<>>, ZERO)

NextAddOnly == AddOnlyAddTile \/ Build

SpecAddOnly == Init /\ [][NextAddOnly]_vars

----------------------------------------------------------------------------
(* main.rs: the tiles main adds to Tilemap::new('-'), here added and        *)
(* removed in any order, with build and size called in between.             *)

DemoTiles ==
    << Tile_new(Vector2_new(0, 0), "O"), Tile_new(Vector2_new(3, 0), "A"),
       Tile_new(Vector2_new(5, 2), "X"), Tile_new(Vector2_new(2, 1), "U"),
       Tile_new(Vector2_new(3, 5), "V"), Tile_new(Vector2_new(1, 4), "H") >>

DemoInit ==
    /\ tilemap = new("-")
    /\ ret = Returned("new", TRUE, <<>>, ZERO)

DemoAddTile ==
    \E i \in 1..Len(DemoTiles) :
        LET r == add_tile(tilemap, DemoTiles[i].position, DemoTiles[i].value)
        IN  /\ tilemap' = r.self
            /\ ret' = Returned("add_tile", r.ok, <<>>, ZERO)

DemoRemoveTile ==
    \E i \in 1..Len(DemoTiles) : RemoveTileAt(DemoTiles[i].position)

NextDemo == DemoAddTile \/ DemoRemoveTile \/ Build \/ Size

SpecDemo == DemoInit /\ [][NextDemo]_vars

----------------------------------------------------------------------------
(* Notions the properties are stated with *)

TileSet(tiles) == {tiles[i] : i \in 1..Len(tiles)}

Occupied(tiles, p) == \E i \in 1..Len(tiles) : tiles[i].position = p

RowMajorLess(a, b) == a.y < b.y \/ (a.y = b.y /\ a.x < b.x)

\* one more than the largest element, 0 for the empty set
Extent(s) == IF s = {} THEN 0 ELSE 1 + CHOOSE m \in s : \A n \in s : n <= m

BoundingSize(tiles) ==
    [y |-> Extent({tiles[i].position.y : i \in 1..Len(tiles)}),
     x |-> Extent({tiles[i].position.x : i \in 1..Len(tiles)})]

\* text split on '\n': the lines of a text, one line for the empty text
RECURSIVE SplitLines(_)
SplitLines(text) ==
    LET nls == {i \in 1..Len(text) : text[i] = NL}
        first == CHOOSE i \in nls : \A j \in nls : i <= j
    IN  IF nls = {} THEN <<text>>
        ELSE <<SubSeq(text, 1, first - 1)>>
                 \o SplitLines(SubSeq(text, first + 1, Len(text)))

\* the rows of a rendered grid: none for the empty text
Rows(text) == IF text = <<>> THEN <<>> ELSE SplitLines(text)

\* the cursor (result, x, y) of build when its for loop reaches the tile at
\* index i, the tiles before it drawn
CursorAt(self, i) ==
    draw_tiles([self EXCEPT !.tiles = SubSeq(self.tiles, 1, i - 1)], 1,
               [result |-> <<>>, x |-> 0, y |-> 0, outcome |-> "return"])

\* how many '\n' a text holds
NewLines(text) == Cardinality({i \in 1..Len(text) : text[i] = NL})

\* the orders in which the tiles of a set can be added: the sequences that
\* hold each tile once
Orders(s) ==
    {o \in [1..Cardinality(s) -> s] : \A i, j \in DOMAIN o : o[i] = o[j] => i = j}

\* the grid after add_tile of the tiles of order, first to last, onto self
RECURSIVE AddAll(_, _)
AddAll(self, order) ==
    IF order = <<>> THEN self
    ELSE AddAll(add_tile(self, Head(order).position, Head(order).value).self,
                Tail(order))

----------------------------------------------------------------------------
(* Properties *)

\* C1: whenever build() has just been called, it returned a text in which
\* every stored tile's value stands at column position.x of line position.y
\* (lines split on '\n', zero-based) and every other character of every line
\* is empty_tile.
C1_BuildPlacesTiles ==
    ret.op = "build" =>
        /\ ret.outcome = "return"
        /\ LET lines == SplitLines(ret.text)
               tiles == tilemap.tiles
           IN  /\ \A i \in 1..Len(tiles) :
                      /\ tiles[i].position.y < Len(lines)
                      /\ tiles[i].position.x < Len(lines[tiles[i].position.y + 1])
                      /\ lines[tiles[i].position.y + 1][tiles[i].position.x + 1]
                             = tiles[i].value
               /\ \A l \in 1..Len(lines) : \A c \in 1..Len(lines[l]) :
                      ~Occupied(tiles, [y |-> l - 1, x |-> c - 1])
                          => lines[l][c] = tilemap.empty_tile

\* C1 witness: build() was called on a grid with two tiles an empty row
\* apart, neither in the first column, after a removal left size wider than
\* the bounding box.
C1_Witness ==
    /\ ret.op = "build"
    /\ Len(tilemap.tiles) = 2
    /\ tilemap.tiles[2].position.y > tilemap.tiles[1].position.y + 1
    /\ tilemap.tiles[1].position.x > 0
    /\ tilemap.tiles[2].position.x > 0
    /\ tilemap.size.x > BoundingSize(tilemap.tiles).x

\* C2: whenever build() has just been called, the text it returned has exactly
\* size.y rows of exactly size.x characters, separated by single '\n', with no
\* trailing newline.
C2_BuildIsSizeRows ==
    ret.op = "build" =>
        /\ ret.outcome = "return"
        /\ Len(Rows(ret.text)) = tilemap.size.y
        /\ \A l \in 1..Len(Rows(ret.text)) :
               Len(Rows(ret.text)[l]) = tilemap.size.x
        /\ ret.text # <<>> => ret.text[Len(ret.text)] # NL

\* C3: in every reachable state size is one more than the largest x and the
\* largest y of the stored tiles, and (0,0) when no tile is stored.
C3_SizeIsBoundingBox == tilemap.size = BoundingSize(tilemap.tiles)

C5_AddAtFreePosition ==
    \A p \in Positions, v \in Values :
        ~Occupied(tilemap.tiles, p) =>
            LET r == add_tile(tilemap, p, v)
            IN  /\ r.ok
                /\ TileSet(r.self.tiles)
                       = TileSet(tilemap.tiles) \cup {Tile_new(p, v)}
                /\ Len(r.self.tiles) = Len(tilemap.tiles) + 1
                /\ r.self.size = [y |-> Max(tilemap.size.y, p.y + 1),
                                  x |-> Max(tilemap.size.x, p.x + 1)]
                /\ r.self.empty_tile = tilemap.empty_tile

\* C5 witness: an add_tile has returned Ok on a grid that already held a tile,
\* leaving size.x larger than size.y.
C5_Witness ==
    /\ ret.op = "add_tile"
    /\ ret.ok
    /\ Len(tilemap.tiles) >= 2
    /\ tilemap.size.x > tilemap.size.y

\* C6: in every reachable grid, add_tile(p, v) at a position p where a tile is
\* stored returns Err for every value v, equal to the stored one or not, and
\* leaves size and the tiles, the value of the tile at p included, unchanged.
C6_AddAtOccupiedPosition ==
    \A p \in Positions, v \in Values :
        Occupied(tilemap.tiles, p) =>
            LET r == add_tile(tilemap, p, v)
            IN  ~r.ok /\ r.self = tilemap

\* C6 witness: an add_tile has returned Err on a grid holding tiles of both
\* values.
C6_Witness ==
    /\ ret.op = "add_tile"
    /\ ~ret.ok
    /\ {tilemap.tiles[i].value : i \in 1..Len(tilemap.tiles)} = Values

C8_RemoveMissingTile ==
    \A p \in Positions :
        LET r == remove_tile(tilemap, p)
            again == remove_tile(r.self, p)
        IN  /\ ~Occupied(tilemap.tiles, p) => (~r.ok /\ r.self = tilemap)
            /\ Occupied(tilemap.tiles, p) =>
                   (r.ok /\ ~again.ok /\ again.self = r.self)

\* C8 witness: a remove_tile has returned Err on a grid that removals have
\* emptied, its size still that of the tiles once stored.
C8_Witness ==
    /\ ret.op = "remove_tile"
    /\ ~ret.ok
    /\ Len(tilemap.tiles) = 0
    /\ tilemap.size # ZERO

\* C9: in every reachable state no two stored tiles have the same position.
C9_NoTwoTilesSharePosition ==
    \A i \in 1..Len(tilemap.tiles) : \A j \in 1..Len(tilemap.tiles) :
        i # j => tilemap.tiles[i].position # tilemap.tiles[j].position

\* C9 witness: an add_tile at an occupied position has just been refused on a
\* grid holding several tiles.
C9_Witness ==
    /\ ret.op = "add_tile"
    /\ ~ret.ok
    /\ Len(tilemap.tiles) >= 2

\* C10: in every reachable state the stored tiles are iterated in strictly
\* increasing row-major order of position (y first, then x).
C10_TilesInRowMajorOrder ==
    \A i \in 1..Len(tilemap.tiles) : \A j \in 1..Len(tilemap.tiles) :
        i < j => RowMajorLess(tilemap.tiles[i].position,
                              tilemap.tiles[j].position)

\* C10 witness: an add_tile has just succeeded on a grid that then holds two
\* tiles, the later one in a later row and a smaller column.
C10_Witness ==
    /\ ret.op = "add_tile"
    /\ ret.ok
    /\ Len(tilemap.tiles) = 2
    /\ tilemap.tiles[2].position.y > tilemap.tiles[1].position.y
    /\ tilemap.tiles[2].position.x < tilemap.tiles[1].position.x

C12_EmptyTileNeverChanges ==
    [][tilemap'.empty_tile = tilemap.empty_tile]_vars

\* C12 amended: none of the methods add_tile, remove_tile, build and size
\* changes empty_tile; only an assignment to the public field does.
C12_MethodsKeepEmptyTile ==
    [][ret'.op \in {"add_tile", "remove_tile", "build", "size"} =>
          tilemap'.empty_tile = tilemap.empty_tile]_vars

\* C12 witness: a method has acted on a grid that holds tiles: remove_tile
\* has returned Ok and left a tile.
C12_Witness ==
    /\ ret.op = "remove_tile"
    /\ ret.ok
    /\ Len(tilemap.tiles) >= 1

\* C13: Vector2 addition and subtraction are component-wise, and whenever a
\* component of the result would be below 0 or above the maximum the call
\* panics instead of returning a wrapped or clamped value.
C13_AddSubTrapOutOfRange ==
    /\ ret.op = "add" =>
           IF ret.a.x + ret.b.x > UsizeMax \/ ret.a.y + ret.b.y > UsizeMax
           THEN ret.outcome = "panic"
           ELSE /\ ret.outcome = "return"
                /\ ret.value = [y |-> ret.a.y + ret.b.y, x |-> ret.a.x + ret.b.x]
    /\ ret.op = "sub" =>
           IF ret.a.x - ret.b.x < 0 \/ ret.a.y - ret.b.y < 0
           THEN ret.outcome = "panic"
           ELSE /\ ret.outcome = "return"
                /\ ret.value = [y |-> ret.a.y - ret.b.y, x |-> ret.a.x - ret.b.x]

\* C14: Vector2 comparison is a total order with a < b exactly when
\* a.y < b.y, or a.y = b.y and a.x < b.x: a compared to a is Equal, and the
\* comparison is antisymmetric, transitive and total.
C14_Vector2TotalOrder ==
    ret.op = "cmp" =>
        /\ ret.ab = "Less" <=> RowMajorLess(ret.a, ret.b)
        /\ ret.ab = "Greater" <=> RowMajorLess(ret.b, ret.a)
        /\ ret.aa = "Equal"
        /\ ret.ab = "Equal" <=> ret.a = ret.b
        /\ ret.eq <=> ret.a = ret.b
        /\ ret.ab = "Less" <=> ret.ba = "Greater"
        /\ (ret.ab # "Greater" /\ ret.ba # "Greater") => ret.a = ret.b
        /\ (ret.ab = "Less" /\ ret.bc = "Less") => ret.ac = "Less"
        /\ (ret.ab # "Greater" /\ ret.bc # "Greater") => ret.ac # "Greater"
        /\ ret.ab = "Less" \/ ret.a = ret.b \/ ret.ba = "Less"

\* C14 witness: two Vector2 were compared of which the first has the smaller
\* y and the larger x, and a third lies above both.
C14_Witness ==
    /\ ret.op = "cmp"
    /\ ret.a.y < ret.b.y
    /\ ret.a.x > ret.b.x
    /\ ret.b.y = ret.c.y
    /\ ret.b.x < ret.c.x
    /\ ret.ab = "Less"

\* C15: two tiles are == and compare Equal exactly when their positions are
\* equal, whatever their values; otherwise they compare as their positions
\* do; and partial_cmp is Some of what cmp returns.
C15_TileComparesByPosition ==
    ret.op = "tile_cmp" =>
        /\ ret.eq <=> ret.a.position = ret.b.position
        /\ ret.cmp = "Equal" <=> ret.a.position = ret.b.position
        /\ ret.cmp = "Less" <=> RowMajorLess(ret.a.position, ret.b.position)
        /\ ret.cmp = "Greater" <=> RowMajorLess(ret.b.position, ret.a.position)
        /\ ret.partial_cmp = [some |-> TRUE, value |-> ret.cmp]

\* C15 witness: two tiles at one position with different values were compared
\* and found equal.
C15_Witness ==
    /\ ret.op = "tile_cmp"
    /\ ret.a.position = ret.b.position
    /\ ret.a.value # ret.b.value
    /\ ret.eq

\* C16: for a, b with a.x >= b.x and a.y >= b.y, (a - b) + b returns a, no
\* call panicking.
C16_SubThenAddRoundTrip ==
    (ret.op = "sub_add" /\ ret.a.x >= ret.b.x /\ ret.a.y >= ret.b.y) =>
        (ret.outcome = "return" /\ ret.value = ret.a)

\* C16 witness: (a - b) + b was computed for a at the maximum in both
\* components and b positive and different in its components.
C16_Witness ==
    /\ ret.op = "sub_add"
    /\ ret.a = [y |-> UsizeMax, x |-> UsizeMax]
    /\ ret.b.x > 0
    /\ ret.b.y > ret.b.x
    /\ ret.outcome = "return"

\* C17: new(c) is a grid of size (0,0) with no tiles and empty_tile = c, and
\* build on a grid whose size is (0,0) returns the empty string.
C17_NewIsEmptyGrid ==
    /\ \A c \in EmptyChars :
           /\ new(c).size = ZERO
           /\ new(c).tiles = <<>>
           /\ new(c).empty_tile = c
    /\ ret.op = "new" =>
           /\ tilemap.size = ZERO
           /\ tilemap.tiles = <<>>
           /\ tilemap.empty_tile \in EmptyChars
    /\ (ret.op = "build" /\ tilemap.size = ZERO) =>
           (ret.outcome = "return" /\ ret.text = <<>>)

\* C17 witness: build was called on a grid of size (0,0) and returned the
\* empty text.
C17_Witness ==
    /\ ret.op = "build"
    /\ tilemap.size = ZERO
    /\ tilemap.tiles = <<>>
    /\ ret.text = <<>>

\* the grid of the scenario: a fresh grid with empty-fill '-' after add_tile
\* of (0,0)->'O', (3,0)->'A', (5,2)->'X', (2,1)->'U', (1,4)->'H' in that order
ScenarioGrid ==
    LET g0 == new("-")
        g1 == add_tile(g0, Vector2_new(0, 0), "O").self
        g2 == add_tile(g1, Vector2_new(3, 0), "A").self
        g3 == add_tile(g2, Vector2_new(5, 2), "X").self
        g4 == add_tile(g3, Vector2_new(2, 1), "U").self
    IN  add_tile(g4, Vector2_new(1, 4), "H").self

\* C18 as stated: on the scenario's grid build returns 5 lines joined by '\n'
\* with no trailing newline, each of size.x = 6 characters, with
\* row 0 = "O--A--", row 1 = "--U---", row 2 = "------X", row 4 = "-H----".
C18_ScenarioAsStated ==
    (ret.op = "build" /\ tilemap = ScenarioGrid) =>
        LET rows == Rows(ret.text)
        IN  /\ ret.outcome = "return"
            /\ Len(rows) = 5
            /\ ret.text[Len(ret.text)] # NL
            /\ tilemap.size.x = 6
            /\ \A r \in 1..Len(rows) : Len(rows[r]) = 6
            /\ rows[1] = <<"O", "-", "-", "A", "-", "-">>
            /\ rows[2] = <<"-", "-", "U", "-", "-", "-">>
            /\ rows[3] = <<"-", "-", "-", "-", "-", "-", "X">>
            /\ rows[5] = <<"-", "H", "-", "-", "-", "-">>

\* C18, amended: as stated, but row 2 = "-----X", the tile of x = 5 being the
\* sixth and last character of its row.
C18_ScenarioRendered ==
    (ret.op = "build" /\ tilemap = ScenarioGrid) =>
        LET rows == Rows(ret.text)
        IN  /\ ret.outcome = "return"
            /\ Len(rows) = 5
            /\ ret.text[Len(ret.text)] # NL
            /\ tilemap.size.x = 6
            /\ \A r \in 1..Len(rows) : Len(rows[r]) = 6
            /\ rows[1] = <<"O", "-", "-", "A", "-", "-">>
            /\ rows[2] = <<"-", "-", "U", "-", "-", "-">>
            /\ rows[3] = <<"-", "-", "-", "-", "-", "X">>
            /\ rows[5] = <<"-", "H", "-", "-", "-", "-">>

\* C18 witness: build was called on the scenario's grid and returned 34
\* characters.
C18_Witness ==
    /\ ret.op = "build"
    /\ tilemap = ScenarioGrid
    /\ Len(tilemap.tiles) = 5
    /\ tilemap.size = Vector2_new(6, 5)
    /\ Len(ret.text) = 34

\* C19: build terminates on every grid reachable by add_tile and remove_tile
\* calls: in the loop `while y < tile.position.y` every build_row(x, size.x)
\* returns NewLine, so its SameLine branch is never taken and the loop runs
\* exactly tile.position.y - y times.
C19_BuildTerminates ==
    /\ build(tilemap).outcome # "hang"
    /\ \A i \in 1..Len(tilemap.tiles) :
           LET tile == tilemap.tiles[i]
               at == CursorAt(tilemap, i)
               after == skip_rows(tilemap, tile, at)
           IN  /\ at.outcome = "return"
               /\ at.y <= tile.position.y
               /\ at.y < tile.position.y =>
                      /\ build_row(tilemap, at.x, tilemap.size.x,
                                   at.result).state = "NewLine"
                      /\ build_row(tilemap, 0, tilemap.size.x,
                                   at.result).state = "NewLine"
               /\ after.outcome = "return"
               /\ after.y = tile.position.y
               /\ NewLines(after.result) - NewLines(at.result)
                      = tile.position.y - at.y
    /\ ret.op = "build" =>
           /\ ret.outcome # "hang"
           /\ NewLines(ret.text) =
                  IF tilemap.tiles = <<>> THEN 0
                  ELSE tilemap.tiles[Len(tilemap.tiles)].position.y

\* C19 witness: build returned for a grid whose second tile lies two rows
\* below the first, the first not being the last cell of its row.
C19_Witness ==
    /\ ret.op = "build"
    /\ ret.outcome = "return"
    /\ Len(tilemap.tiles) >= 2
    /\ tilemap.tiles[2].position.y >= tilemap.tiles[1].position.y + 2
    /\ tilemap.tiles[1].position.x + 1 < tilemap.size.x

\* C20: in build the call build_row(x, tile.position.x) never returns
\* NewLine, so the panic! branch is not reached on any grid reachable by
\* add_tile and remove_tile calls; build_row returns NewLine exactly when its
\* final cursor equals size.x and SameLine(cursor) otherwise.
C20_PanicBranchUnreachable ==
    /\ build(tilemap).outcome # "panic"
    /\ \A i \in 1..Len(tilemap.tiles) :
           LET tile == tilemap.tiles[i]
               after == skip_rows(tilemap, tile, CursorAt(tilemap, i))
               r == build_row(tilemap, after.x, tile.position.x, after.result)
           IN  /\ after.x <= tile.position.x
               /\ r.state = "SameLine"
               /\ r.position = tile.position.x
    /\ \A s, e \in 0..(MaxCoord + 2) :
           LET r == build_row(tilemap, s, e, <<>>)
               cursor == IF s < e THEN e ELSE s
           IN  /\ r.state = "NewLine" <=> cursor = tilemap.size.x
               /\ r.state = "SameLine" <=> cursor # tilemap.size.x
               /\ r.position = cursor
               /\ r.result = [k \in 1..(cursor - s) |-> tilemap.empty_tile]
    /\ ret.op = "build" => ret.outcome # "panic"

\* C20 witness: build returned for a grid with two tiles in one row and a
\* gap between them, the second the last cell of the row.
C20_Witness ==
    /\ ret.op = "build"
    /\ ret.outcome = "return"
    /\ Len(tilemap.tiles) >= 2
    /\ tilemap.tiles[1].position.y = tilemap.tiles[2].position.y
    /\ tilemap.tiles[2].position.x > tilemap.tiles[1].position.x + 1
    /\ tilemap.tiles[2].position.x + 1 = tilemap.size.x

\* C21: every stored tile lies strictly inside size, for positions over the
\* whole usize range: add_tile of a free position whose x or y is the
\* largest usize panics rather than wrapping, and the panic leaves the tiles
\* without that tile.
C21_TilesInsideSize ==
    /\ \A i \in 1..Len(tilemap.tiles) :
           /\ tilemap.tiles[i].position.x < tilemap.size.x
           /\ tilemap.tiles[i].position.y < tilemap.size.y
    /\ ( /\ ret.op = "add_tile"
         /\ ret.position.x = UsizeMax \/ ret.position.y = UsizeMax
         /\ ret.outcome = "panic" \/ ret.ok )
       => /\ ret.outcome = "panic"
          /\ ~Occupied(tilemap.tiles, ret.position)

\* C22: insertion order does not matter: when build is called on a grid that
\* was only added to, its tiles added to a fresh grid in any order give the
\* same tile sequence, the same size and the same build() string.
C22_InsertionOrderIrrelevant ==
    ret.op = "build" =>
        \A order \in Orders(TileSet(tilemap.tiles)) :
            LET g == AddAll(new(tilemap.empty_tile), order)
                b == build(g)
            IN  /\ g.tiles = tilemap.tiles
                /\ g.size = tilemap.size
                /\ b.outcome = ret.outcome
                /\ b.result = ret.text

\* C22 witness: build returned for a grid of three tiles that were added
\* neither in row-major order nor in its reverse.
C22_Witness ==
    /\ ret.op = "build"
    /\ ret.outcome = "return"
    /\ Len(tilemap.tiles) = 3
    /\ tilemap.tiles[1].value # tilemap.tiles[2].value
    /\ tilemap.tiles[2].position.x < tilemap.tiles[1].position.x
    /\ tilemap.tiles[3].position.x < tilemap.tiles[2].position.x

====
